---- MODULE Spec2Model ----
(***************************************************************************)
(* A model of the C-MAPSS data pipeline of dataset/cmapss.py: RUL          *)
(* labelling, the train/validation split, scaling, windowing, the dataset  *)
(* container and the two negative samplers.                                *)
(*                                                                         *)
(* A DataFrame is a sequence of rows (records); an ndarray is a sequence.  *)
(* Every operation of the source is an operator computed as the source     *)
(* computes it; a failing call (a raised exception) is a result record     *)
(* whose field ok is FALSE.                                                *)
(***************************************************************************)
EXTENDS Integers, Sequences, FiniteSets, TLC

VARIABLES pc, args, ret, scalers, calls, dataset, samplers

vars == <<pc, args, ret, scalers, calls, dataset, samplers>>

(***************************************************************************)
(* Bounds of the model.                                                    *)
(***************************************************************************)
MaxEngines == 2
MaxLen == 3
MaxRemain == 2
MaxThresh == 2

(***************************************************************************)
(* Helpers.                                                                *)
(***************************************************************************)
SetMax(S) == CHOOSE m \in S : \A x \in S : x <= m

SetMin(S) == CHOOSE m \in S : \A x \in S : m <= x

RECURSIVE SumSeq(_)
SumSeq(s) == IF s = <<>> THEN 0 ELSE Head(s) + SumSeq(Tail(s))

RECURSIVE Flatten(_)
Flatten(ss) == IF ss = <<>> THEN <<>> ELSE Head(ss) \o Flatten(Tail(ss))

\* the elements of a finite set of integers in ascending order
RECURSIVE SortedSeq(_)
SortedSeq(S) == IF S = {} THEN <<>> ELSE <<SetMin(S)>> \o SortedSeq(S \ {SetMin(S)})

\* the sequences of distinct elements of S of length n (a draw without replacement)
Draws(S, n) == {d \in [1..n -> S] : \A i, j \in 1..n : i /= j => d[i] /= d[j]}

\* the non-empty sequences over S of length at most n
SeqsUpTo(S, n) == UNION {[1..k -> S] : k \in 1..n}

(***************************************************************************)
(* The raw files. A row of train_FD00X.txt / test_FD00X.txt holds the      *)
(* engine id, the 1-based cycle index and the sensor readings; one sensor  *)
(* column s is kept, with a reading that identifies the row.               *)
(***************************************************************************)
SensorReading(u, t) == 100 * u + t

EngineRows(u, len) == [t \in 1..len |-> [unit_nr |-> u, time_cycles |-> t, s |-> SensorReading(u, t)]]

\* engines 1..Len(lens), engine u observed for cycles 1..lens[u], in file order
ReadFrame(lens) == Flatten([u \in DOMAIN lens |-> EngineRows(u, lens[u])])

\* the value of an absent y_test argument
NoYTest == [present |-> FALSE, rows |-> <<>>]

(***************************************************************************)
(* generate_rul                                                            *)
(***************************************************************************)
\* df.groupby(by="unit_nr"): the group keys
Units(df) == {df[i].unit_nr : i \in DOMAIN df}

\* the rows of one engine, in frame order
Group(df, u) == SelectSeq(df, LAMBDA r : r.unit_nr = u)

\* grouped["time_cycles"].max(): a series indexed by engine id
RUL_max(df) == [u \in Units(df) |-> SetMax({df[i].time_cycles : i \in {j \in DOMAIN df : df[j].unit_nr = u}})]

\* position (1-based) of key u in the sorted group index
IndexPos(idx, u) == Cardinality({v \in idx : v <= u})

\* a plausible slip: the remainder is never added
AddRemaining_ignored(mx, y_test) == mx

\* y_test.index = RUL_max.index; RUL_max = RUL_max + y_test[y_test.columns[0]]
AddRemaining(mx, y_test) == IF y_test.present THEN [u \in DOMAIN mx |-> mx[u] + y_test.rows[IndexPos(DOMAIN mx, u)]] ELSE mx

\* result.loc[result["rul"] > threshold, "rul"] = threshold
ClipRul(rul, threshold) == IF threshold > 0 /\ rul > threshold THEN threshold ELSE rul

\* a plausible slip: the clipped engines' max_cycles set to the threshold itself
ClipMax_noplus(max_cycles, threshold) == IF threshold > 0 /\ max_cycles > threshold THEN threshold ELSE max_cycles

\* result.loc[result["max_cycles"] > threshold, "max_cycles"] = threshold + 1
ClipMax(max_cycles, threshold) == IF threshold > 0 /\ max_cycles > threshold THEN threshold + 1 ELSE max_cycles

\* a plausible slip: rul / max_cycles, without the + 1
NormRul_noplus(rul, max_cycles) == [num |-> rul, den |-> max_cycles]

\* (result["rul"] + 1) / result["max_cycles"]: the quotient, kept exact
NormRul(rul, max_cycles) == [num |-> rul + 1, den |-> max_cycles]

generate_rul(df, y_test, normalize, threshold) ==
    LET mx == AddRemaining(RUL_max(df), y_test)
        row(r) == LET rul0 == mx[r.unit_nr] - r.time_cycles
                      rul1 == ClipRul(rul0, threshold)
                      max1 == ClipMax(mx[r.unit_nr], threshold)
                  IN  [unit_nr |-> r.unit_nr, time_cycles |-> r.time_cycles, s |-> r.s,
                       max_cycles |-> max1,
                       rul |-> IF normalize THEN NormRul(rul1, max1) ELSE rul1]
    IN  [i \in DOMAIN df |-> row(df[i])]

(***************************************************************************)
(* Specification of generate_rul: Init draws the arguments, the action     *)
(* applies the function.                                                   *)
(***************************************************************************)
YTests(n) == {NoYTest} \cup {[present |-> TRUE, rows |-> y] : y \in [1..n -> 0..MaxRemain]}

RulArgs == {[lens |-> l, y_test |-> y, normalize |-> nm, threshold |-> th] :
              l \in SeqsUpTo(1..MaxLen, MaxEngines), y \in UNION {YTests(n) : n \in 1..MaxEngines},
              nm \in BOOLEAN, th \in 0..MaxThresh}

InitRul ==
    /\ pc = "call"
    /\ args \in {a \in RulArgs : a.y_test.present => Len(a.y_test.rows) = Len(a.lens)}
    /\ ret = <<>>
    /\ scalers = <<>>
    /\ calls = <<>>
    /\ dataset = <<>>
    /\ samplers = <<>>

GenerateRul ==
    /\ pc = "call"
    /\ ret' = generate_rul(ReadFrame(args.lens), args.y_test, args.normalize, args.threshold)
    /\ pc' = "done"
    /\ UNCHANGED <<args, scalers, calls, dataset, samplers>>

NextRul == GenerateRul

SpecRul == InitRul /\ [][NextRul]_vars

\* the engine's true total life, from the arguments alone
TrueMax(u) == args.lens[u] + (IF args.y_test.present THEN args.y_test.rows[u] ELSE 0)

C2_Clip ==
    (pc = "done" /\ args.threshold > 0 /\ ~args.normalize) =>
        \A i \in DOMAIN ret :
            LET pre == TrueMax(ret[i].unit_nr)
            IN  /\ ret[i].rul <= args.threshold
                /\ pre > args.threshold => ret[i].max_cycles = args.threshold + 1
                /\ pre <= args.threshold =>
                       /\ ret[i].max_cycles = pre
                       /\ ret[i].rul = pre - ret[i].time_cycles

C2_Witness ==
    /\ pc = "done" /\ args.threshold = 2 /\ ~args.normalize
    /\ \E i, j \in DOMAIN ret :
          /\ TrueMax(ret[i].unit_nr) > 3 /\ ret[i].rul = 2 /\ ret[i].max_cycles = 3
          /\ TrueMax(ret[j].unit_nr) = 2 /\ ret[j].rul = 1 /\ ret[j].max_cycles = 2

\* the clipped, un-normalized rul of a record, from the arguments alone
ClippedRul(u, t) ==
    LET r == TrueMax(u) - t
    IN  IF args.threshold > 0 /\ r > args.threshold THEN args.threshold ELSE r

\* C3: with normalize = true, for every threshold T >= 0, in train and test
\* mode, every record's rul is (clipped_rul + 1) / max_cycles with the
\* post-clip max_cycles, and 0 < clipped_rul + 1 <= max_cycles, so the
\* quotient lies in (0, 1].
C3_Normalized ==
    (pc = "done" /\ args.normalize) =>
        \A i \in DOMAIN ret :
            /\ ret[i].rul.num = ClippedRul(ret[i].unit_nr, ret[i].time_cycles) + 1
            /\ ret[i].rul.den = ret[i].max_cycles
            /\ 0 < ret[i].rul.num /\ ret[i].rul.num <= ret[i].rul.den

C3_Witness ==
    /\ pc = "done" /\ args.normalize /\ args.threshold = 1 /\ args.y_test.present
    /\ \E i, j \in DOMAIN ret :
          /\ ret[i].rul = [num |-> 2, den |-> 2] /\ TrueMax(ret[i].unit_nr) > 2
          /\ ret[j].rul = [num |-> 1, den |-> 2]

(***************************************************************************)
(* generate_window_sample                                                  *)
(***************************************************************************)
MaxWinEngines == 2
MaxWinLen == 5
MaxWindow == 2
MaxStep == 2

\* (data.shape[0] - window_size) // slide_step
NumWindows(len, window_size, slide_step) == (len - window_size) \div slide_step

\* data[j:j + window_size], j counted from 0: the slice does not use slide_step
WindowSlice(data, j, window_size) == SubSeq(data, j + 1, j + window_size)

\* a plausible slip: the label taken at the window's last record
WindowLabel_last(engine, j, window_size) == engine[j + window_size].rul

\* engine["rul"].iloc[j + window_size], j counted from 0
WindowLabel(engine, j, window_size) == engine[j + window_size + 1].rul

\* the lists s, e and rul built for one engine that is not dropped
EngineWindows(engine, window_size, slide_step) ==
    LET n    == NumWindows(Len(engine), window_size, slide_step)
        data == [k \in DOMAIN engine |-> engine[k].s]
    IN  [s   |-> [j1 \in 1..n |-> WindowSlice(data, j1 - 1, window_size)],
         e   |-> [j1 \in 1..n |-> engine[1].unit_nr],
         rul |-> [j1 \in 1..n |-> WindowLabel(engine, j1 - 1, window_size)]]

\* np.concatenate of the per-engine window lists: it needs at least one array,
\* and an engine with an empty list (a 1-d array of shape (0,)) cannot be
\* joined with an engine's 3-d array of windows
ConcatWindowsOk(lists) ==
    /\ lists /= <<>>
    /\ \A a, b \in DOMAIN lists : (lists[a] = <<>>) = (lists[b] = <<>>)

generate_window_sample(df, window_size, slide_step) ==
    LET keys    == SortedSeq(Units(df))
        long    == SelectSeq(keys, LAMBDA u : Len(Group(df, u)) >= window_size)
        per     == [k \in DOMAIN long |-> EngineWindows(Group(df, long[k]), window_size, slide_step)]
        warned  == {u \in Units(df) : Len(Group(df, u)) < window_size}
        result  == [k \in DOMAIN per |-> per[k].s]
    IN  IF ConcatWindowsOk(result)
        THEN [ok |-> TRUE, warned |-> warned,
              data   |-> Flatten(result),
              ids    |-> Flatten([k \in DOMAIN per |-> per[k].e]),
              labels |-> Flatten([k \in DOMAIN per |-> per[k].rul])]
        ELSE [ok |-> FALSE, warned |-> warned, data |-> <<>>, ids |-> <<>>, labels |-> <<>>]

WinArgs == {[lens |-> l, window_size |-> w, slide_step |-> st] :
              l \in SeqsUpTo(1..MaxWinLen, MaxWinEngines), w \in 1..MaxWindow, st \in 1..MaxStep}

InitWin ==
    /\ pc = "call"
    /\ args \in WinArgs
    /\ ret = <<>>
    /\ scalers = <<>>
    /\ calls = <<>>
    /\ dataset = <<>>
    /\ samplers = <<>>

\* the frame windowed is a labelled train frame
GenerateWindowSample ==
    /\ pc = "call"
    /\ ret' = generate_window_sample(generate_rul(ReadFrame(args.lens), NoYTest, FALSE, 0),
                                     args.window_size, args.slide_step)
    /\ pc' = "done"
    /\ UNCHANGED <<args, scalers, calls, dataset, samplers>>

NextWin == GenerateWindowSample

SpecWin == InitWin /\ [][NextWin]_vars

\* max(0, floor((L - W) / slide_step)), from the arguments alone
ExpectedCount(u) ==
    LET q == (args.lens[u] - args.window_size) \div args.slide_step
    IN  IF q > 0 THEN q ELSE 0

\* number of windows of the engines before u
ExpectedOffset(u) == SumSeq([v \in 1..(u - 1) |-> ExpectedCount(v)])

C5_WindowContent ==
    (pc = "done" /\ ret.ok) =>
        \A u \in DOMAIN args.lens : \A j \in 0..(ExpectedCount(u) - 1) :
            /\ ret.ids[ExpectedOffset(u) + j + 1] = u
            /\ ret.data[ExpectedOffset(u) + j + 1] =
                  [k \in 1..args.window_size |-> SensorReading(u, j * args.slide_step + k)]

\* the labelled frame that was windowed, and the same frame without engine u
WindowedFrame == generate_rul(ReadFrame(args.lens), NoYTest, FALSE, 0)
WithoutEngine(u) == SelectSeq(WindowedFrame, LAMBDA r : r.unit_nr /= u)

\* C12: when at least one engine yields a window, the call succeeds, and for
\* every engine that yields no window (length < window_size, or window_size <=
\* length < window_size + slide_step) the three returned arrays equal those of
\* windowing the same frame with that engine's records removed.
C12_AsStated ==
    (pc = "done" /\ \E v \in DOMAIN args.lens : ExpectedCount(v) > 0) =>
        /\ ret.ok
        /\ \A u \in DOMAIN args.lens : ExpectedCount(u) = 0 =>
              LET rest == generate_window_sample(WithoutEngine(u), args.window_size, args.slide_step)
              IN  /\ rest.ok
                  /\ ret.data = rest.data /\ ret.ids = rest.ids /\ ret.labels = rest.labels

(***************************************************************************)
(* split_val_set. The ratio val_size is the exact fraction num / den.      *)
(***************************************************************************)
MaxSplitEngines == 4
MaxSplitLen == 2
MaxDen == 4

\* Python's round(num / den): to the nearest integer, a tie to the even one
Round(num, den) ==
    LET q == num \div den
        r == num % den
    IN  IF 2 * r < den THEN q
        ELSE IF 2 * r > den THEN q + 1
        ELSE IF q % 2 = 0 THEN q ELSE q + 1

\* a plausible slip: the number of validation engines rounded to nearest
ValCount_round(n, val_size) == Round(n * val_size.num, val_size.den)

\* int(len(grouped) * val_size): truncation (the product is not negative)
ValCount(n, val_size) == (n * val_size.num) \div val_size.den

\* np.random.choice(range(1, n + 1), k, replace=False), as the set drawn
ValIndexDraws(n, k) == {S \in SUBSET (1..n) : Cardinality(S) = k}

\* the loop over i in 1..len(grouped) and the two pd.concat calls, for the
\* drawn val_index; pd.concat raises ValueError on an empty list
split_val_set(train_set, val_index) ==
    LET n     == Cardinality(Units(train_set))
        train == SelectSeq([i \in 1..n |-> i], LAMBDA i : i \notin val_index)
        val   == SelectSeq([i \in 1..n |-> i], LAMBDA i : i \in val_index)
    IN  IF train = <<>> \/ val = <<>>
        THEN [ok |-> FALSE, train |-> <<>>, val |-> <<>>]
        ELSE [ok |-> TRUE,
              train |-> Flatten([k \in DOMAIN train |-> Group(train_set, train[k])]),
              val   |-> Flatten([k \in DOMAIN val |-> Group(train_set, val[k])])]

Ratios == {[num |-> a, den |-> b] : a \in 0..MaxDen, b \in 1..MaxDen}

SplitArgs == {[lens |-> l, val_size |-> v] :
                l \in SeqsUpTo(1..MaxSplitLen, MaxSplitEngines),
                v \in {x \in Ratios : x.num <= x.den}}

\* the labelled train frame handed to the split
SplitInput == generate_rul(ReadFrame(args.lens), NoYTest, FALSE, 0)

InitSplit ==
    /\ pc = "call"
    /\ args \in SplitArgs
    /\ ret = <<>>
    /\ scalers = <<>>
    /\ calls = <<>>
    /\ dataset = <<>>
    /\ samplers = <<>>

SplitValSet ==
    /\ pc = "call"
    /\ \E val_index \in ValIndexDraws(Len(args.lens), ValCount(Len(args.lens), args.val_size)) :
          ret' = split_val_set(SplitInput, val_index)
    /\ pc' = "done"
    /\ UNCHANGED <<args, scalers, calls, dataset, samplers>>

NextSplit == SplitValSet

SpecSplit == InitSplit /\ [][NextSplit]_vars

\* every engine is whole in exactly one output, and no record is lost or added
SplitPartitions ==
    /\ \A u \in DOMAIN args.lens :
          \/ Group(ret.train, u) = Group(SplitInput, u) /\ Group(ret.val, u) = <<>>
          \/ Group(ret.val, u) = Group(SplitInput, u) /\ Group(ret.train, u) = <<>>
    /\ Len(ret.train) + Len(ret.val) = Len(SplitInput)

NoSampler == 0

Cmapss(data, ids, labels) ==
    [ok |-> Len(data) = Len(ids) /\ Len(ids) = Len(labels),
     data |-> data, ids |-> ids, labels |-> labels, sampler |-> NoSampler]

(***************************************************************************)
(* get_data. A scaler is an object of the heap `scalers`; object 0 is the  *)
(* one instance built when the def statement of get_data is evaluated and  *)
(* used by every call that leaves the scaler argument out. The fitted      *)
(* parameters are the statistics of the column given to fit; a transformed *)
(* reading keeps the raw reading and the parameters applied to it.         *)
(***************************************************************************)
MaxCalls == 2

Recognized == {"StandardScaler", "MinMaxScaler", "RobustScaler", "MaxAbsScaler"}

ScalerKinds == Recognized \cup {"Normalizer"}

DefaultScaler == 0

\* a scaler as constructed: not fitted
NewScaler(kind) == [kind |-> kind, nfit |-> 0, params |-> <<>>]

\* train[sensors]: the sensor column of a frame
SensorColumn(df) == [i \in DOMAIN df |-> df[i].s]

\* scaler.fit(X): the parameters are computed anew from X
Fit(sc, X) ==
    [kind |-> sc.kind, nfit |-> sc.nfit + 1,
     params |-> [n_samples |-> Len(X),
                 lo |-> SetMin({X[i] : i \in DOMAIN X}),
                 hi |-> SetMax({X[i] : i \in DOMAIN X})]]

\* df[sensors] = scaler.transform(df[sensors]): the parameters are only read
Transform(sc, df) ==
    [i \in DOMAIN df |->
        [unit_nr |-> df[i].unit_nr, time_cycles |-> df[i].time_cycles,
         max_cycles |-> df[i].max_cycles, rul |-> df[i].rul,
         s |-> [x |-> df[i].s, by |-> sc.params]]]

\* the files of one subset under path
Files(subset) ==
    IF subset = "FD001"
    THEN [train |-> <<40, 5>>, test |-> <<15>>, y_test |-> <<3>>]
    ELSE [train |-> <<4, 3>>, test |-> <<3>>, y_test |-> <<2>>]

\* a call that raised: nothing is returned
Raised(error, sc, events, warned) ==
    [ok |-> FALSE, error |-> error, scaler |-> sc, events |-> events, warned |-> warned,
     train_col |-> <<>>, train_data |-> <<>>, test_data |-> <<>>, val_data |-> <<>>]

\* the body of get_data for the scaler object sc and the split's draw val_index
get_data(subset, window_size, slide_step, sc, rul_threshold, label_norm, val_index) ==
    LET files == Files(subset)
        train0 == generate_rul(ReadFrame(files.train), NoYTest, label_norm, rul_threshold)
        test0  == generate_rul(ReadFrame(files.test), [present |-> TRUE, rows |-> files.y_test],
                               label_norm, rul_threshold)
        sp     == split_val_set(train0, val_index)
    IN  IF ~sp.ok THEN Raised("ValueError", sc, <<>>, {})
        ELSE IF sc.kind \notin Recognized THEN Raised("AssertionError", sc, <<>>, {})
        ELSE
          LET fitted == Fit(sc, SensorColumn(sp.train))
              train  == Transform(fitted, sp.train)
              test   == Transform(fitted, test0)
              val    == Transform(fitted, sp.val)
              events == <<"fit train", "transform train", "transform test", "transform val">>
              wtrain == generate_window_sample(train, window_size, slide_step)
              wval   == generate_window_sample(val, window_size, slide_step)
              wtest  == generate_window_sample(test, window_size, slide_step)
          IN  IF ~wtrain.ok THEN Raised("ValueError", fitted, events, wtrain.warned)
              ELSE IF ~wval.ok THEN Raised("ValueError", fitted, events, wtrain.warned \cup wval.warned)
              ELSE IF ~wtest.ok THEN Raised("ValueError", fitted, events, wtrain.warned \cup wval.warned)
              ELSE [ok |-> TRUE, error |-> "", scaler |-> fitted, events |-> events,
                    warned |-> wtrain.warned \cup wval.warned,
                    train_col |-> SensorColumn(sp.train),
                    train_data |-> Cmapss(wtrain.data, wtrain.ids, wtrain.labels),
                    test_data  |-> Cmapss(wtest.data, wtest.ids, wtest.labels),
                    val_data   |-> Cmapss(wval.data, wval.ids, wval.labels)]

\* the configurations get_data is called with: the two-engine scenario
\* (window 10, step 1, the default val_ratio 0.2) and a small one
Configs ==
    {[subset |-> "FD001", window_size |-> 10, slide_step |-> 1, val_ratio |-> [num |-> 1, den |-> 5]],
     [subset |-> "FD002", window_size |-> 2, slide_step |-> 1, val_ratio |-> [num |-> 1, den |-> 2]]}

InitData ==
    /\ pc = "idle"
    /\ args = <<>>
    /\ ret = <<>>
    /\ scalers = [o \in {DefaultScaler} |-> NewScaler("MinMaxScaler")]
    /\ calls = <<>>
    /\ dataset = <<>>
    /\ samplers = <<>>

\* one call of get_data: with the scaler argument left out (the shared
\* default object) or with a scaler object the caller has just constructed
GetData ==
    /\ Len(calls) < MaxCalls
    /\ \E cfg \in Configs, label_norm \in BOOLEAN, given \in {"default"} \cup ScalerKinds :
        LET obj == IF given = "default" THEN DefaultScaler ELSE Len(calls) + 1
            sc  == IF given = "default" THEN scalers[DefaultScaler] ELSE NewScaler(given)
            n   == Len(Files(cfg.subset).train)
        IN  \E val_index \in ValIndexDraws(n, ValCount(n, cfg.val_ratio)) :
              /\ ret' = get_data(cfg.subset, cfg.window_size, cfg.slide_step, sc, 0, label_norm, val_index)
              /\ args' = [cfg |-> cfg, label_norm |-> label_norm, scaler |-> given]
              /\ scalers' = [o \in DOMAIN scalers \cup {obj} |-> IF o = obj THEN ret'.scaler ELSE scalers[o]]
              /\ calls' = Append(calls, [ok |-> ret'.ok, obj |-> obj, given |-> given,
                                         events |-> ret'.events, train_col |-> ret'.train_col,
                                         params |-> ret'.scaler.params])
    /\ pc' = "returned"
    /\ UNCHANGED <<dataset, samplers>>

NextData == GetData

SpecData == InitData /\ [][NextData]_vars

\* the two-engine scenario: engine 1 with 40 timesteps, engine 2 with 5,
\* window size 10, slide step 1, val_ratio 0.2
Scenario == [subset |-> "FD001", window_size |-> 10, slide_step |-> 1, val_ratio |-> [num |-> 1, den |-> 5]]

\* C7: the scaler a get_data call returns is fitted exactly once, on that
\* call's train partition and before any transform, its fitted parameters
\* are never recomputed afterwards (not by a later call that uses the
\* default scaler argument), and a scaler of an unrecognized type makes the
\* call fail before any fit.
C7_AsStated ==
    \A k \in DOMAIN calls :
        /\ (calls[k].given \notin Recognized \cup {"default"}) =>
              (~calls[k].ok /\ calls[k].events = <<>> /\ scalers[calls[k].obj].nfit = 0)
        /\ calls[k].ok =>
              /\ calls[k].events = <<"fit train", "transform train", "transform test", "transform val">>
              /\ calls[k].params = Fit(NewScaler("MinMaxScaler"), calls[k].train_col).params
              /\ scalers[calls[k].obj].params = calls[k].params

\* C10: on the two-engine scenario the get_data chain completes for every
\* split draw, drops engine 2 with a warning, yields exactly 30 windows of
\* engine 1 in train and validation together, and with label normalization
\* off every label is non-negative.
C10_AsStated ==
    (pc = "returned" /\ args.cfg = Scenario /\ args.scaler \in Recognized \cup {"default"}) =>
        /\ ret.ok
        /\ ret.warned = {2}
        /\ Len(ret.train_data.data) + Len(ret.val_data.data) = 30
        /\ \A p \in DOMAIN ret.train_data.ids : ret.train_data.ids[p] = 1
        /\ \A p \in DOMAIN ret.val_data.ids : ret.val_data.ids[p] = 1
        /\ ~args.label_norm =>
              /\ \A p \in DOMAIN ret.train_data.labels : ret.train_data.labels[p] >= 0
              /\ \A p \in DOMAIN ret.val_data.labels : ret.val_data.labels[p] >= 0

(***************************************************************************)
(* CmapssRandomNegtiveSampler. Positions of an array are counted from 1,   *)
(* so the numpy index of position p is p - 1.                              *)
(***************************************************************************)
MaxData == 4
MaxLabel == 2
MaxNeg == 2
MaxSampleThresh == 1

Abs(x) == IF x < 0 THEN 0 - x ELSE x

\* np.argwhere(np.abs(self.labels - self.labels[index]) > self.thresh)
Candidates(labels, index, thresh) == {p \in DOMAIN labels : Abs(labels[p] - labels[index]) > thresh}

\* np.squeeze(...) handed to np.random.choice: a single candidate squeezes to
\* a 0-d array, which choice reads as an int v and draws from np.arange(v),
\* the positions before the candidate
Population(cands) ==
    IF Cardinality(cands) = 1
    THEN 1..((CHOOSE p \in cands : TRUE) - 1)
    ELSE cands

\* np.random.choice(a, size, replace=False) raises on an empty population
\* and on a sample larger than the population
ChoiceRaises(pop, size) == pop = {} \/ size > Cardinality(pop)

\* the body of sample(index) once choice has drawn `drawn`
RandomNegSample(ds, index, drawn) ==
    LET indexes == [k \in DOMAIN drawn |-> IF k = 1 THEN index ELSE drawn[k]]
    IN  [ok |-> TRUE,
         samples |-> [k \in DOMAIN indexes |-> ds.data[indexes[k]]],
         labels  |-> [k \in DOMAIN indexes |-> ds.labels[indexes[k]]]]

\* a dataset of n windows of one engine; window p is the token 1000 + p
LabelledDataset(labels) ==
    Cmapss([p \in DOMAIN labels |-> 1000 + p], [p \in DOMAIN labels |-> 1], labels)

RandArgs == {[labels |-> l, neg_num |-> n, thresh |-> th, index |-> i] :
               l \in SeqsUpTo(0..MaxLabel, MaxData), n \in 1..MaxNeg,
               th \in 0..MaxSampleThresh, i \in 1..MaxData}

InitRand ==
    /\ pc = "call"
    /\ args \in {a \in RandArgs : a.index <= Len(a.labels)}
    /\ ret = <<>>
    /\ scalers = <<>>
    /\ calls = <<>>
    /\ dataset = <<>>
    /\ samplers = <<>>

\* CmapssRandomNegtiveSampler.sample(index): the draw raised
RandomSampleRaises ==
    /\ pc = "call"
    /\ ChoiceRaises(Population(Candidates(args.labels, args.index, args.thresh)), args.neg_num + 1)
    /\ ret' = [ok |-> FALSE, samples |-> <<>>, labels |-> <<>>]
    /\ pc' = "done"
    /\ UNCHANGED <<args, scalers, calls, dataset, samplers>>

\* CmapssRandomNegtiveSampler.sample(index): the draw succeeded
RandomSampleReturns ==
    /\ pc = "call"
    /\ LET pop == Population(Candidates(args.labels, args.index, args.thresh))
       IN  /\ ~ChoiceRaises(pop, args.neg_num + 1)
           /\ \E drawn \in Draws(pop, args.neg_num + 1) :
                 ret' = RandomNegSample(LabelledDataset(args.labels), args.index, drawn)
    /\ pc' = "done"
    /\ UNCHANGED <<args, scalers, calls, dataset, samplers>>

NextRand == RandomSampleRaises \/ RandomSampleReturns

SpecRand == InitRand /\ [][NextRand]_vars

\* C8: with at least neg_num + 1 indices whose label differs from the
\* anchor's by more than sample_thresh, the result has neg_num + 1 entries,
\* entry 0 is the dataset's own sample and label at index, and the entries
\* 1..neg_num are distinct dataset entries whose label differs from the
\* anchor's by more than sample_thresh; with fewer such indices the call
\* fails and returns no bundle.
C8_AsStated ==
    (pc = "done") =>
        LET far == {p \in DOMAIN args.labels :
                       \/ args.labels[p] - args.labels[args.index] > args.thresh
                       \/ args.labels[args.index] - args.labels[p] > args.thresh}
        IN  /\ Cardinality(far) >= args.neg_num + 1 =>
                 /\ ret.ok
                 /\ Len(ret.samples) = args.neg_num + 1
                 /\ Len(ret.labels) = args.neg_num + 1
                 /\ ret.samples[1] = 1000 + args.index
                 /\ ret.labels[1] = args.labels[args.index]
                 /\ \A k \in 2..(args.neg_num + 1) :
                       /\ \E p \in far : ret.samples[k] = 1000 + p /\ ret.labels[k] = args.labels[p]
                       /\ \A m \in 2..(args.neg_num + 1) : m /= k => ret.samples[m] /= ret.samples[k]
            /\ Cardinality(far) < args.neg_num + 1 => ~ret.ok

(***************************************************************************)
(* CmapssNegativeSampler.                                                  *)
(***************************************************************************)
MaxNegEngines == 2
MaxNegLen == 4
MaxEngineNum == 2
MaxInterval == 2

\* the tuples with one element of each set of the sequence `ranges`
RECURSIVE Product(_)
Product(ranges) ==
    IF ranges = <<>> THEN {<<>>}
    ELSE {<<x>> \o rest : x \in Head(ranges), rest \in Product(Tail(ranges))}

\* a plausible slip: the anchor's engine is not forced into the drawn ids
ForceAnchor_missing(engine_ids, engine_id) == engine_ids

\* if engine_id not in engine_ids: engine_ids[0] = engine_id
ForceAnchor(engine_ids, engine_id) ==
    IF \E k \in DOMAIN engine_ids : engine_ids[k] = engine_id
    THEN engine_ids
    ELSE [k \in DOMAIN engine_ids |-> IF k = 1 THEN engine_id ELSE engine_ids[k]]

\* np.unique(self.ids)
UniqueIds(ids) == {ids[p] : p \in DOMAIN ids}

\* np.argwhere(self.ids == engine): the positions of the engine's windows
SampleIndexes(ids, engine) == {p \in DOMAIN ids : ids[p] = engine}

\* sample_indexes.shape[0] // self.interval_nums
Gap(ids, engine, interval_nums) == Cardinality(SampleIndexes(ids, engine)) \div interval_nums

\* range(random_range_start, random_range_end) of segment i (from 0) of an engine
SegmentRange(ids, engine, interval_nums, i) ==
    LET first == SetMin(SampleIndexes(ids, engine))
        last  == SetMax(SampleIndexes(ids, engine))
        gap   == Gap(ids, engine, interval_nums)
        start == first + i * gap
        end   == IF i /= interval_nums - 1 THEN start + gap ELSE last + 1
    IN  start..(end - 1)

\* the segments in loop order (engine by engine, interval by interval) that
\* the loop does not skip: a segment is skipped when it holds index and the
\* engine is the anchor's
SampledSegments(ids, engine_ids, interval_nums, index) ==
    LET all == Flatten([e \in DOMAIN engine_ids |->
                            [i1 \in 1..interval_nums |->
                                [engine |-> engine_ids[e],
                                 range |-> SegmentRange(ids, engine_ids[e], interval_nums, i1 - 1)]]])
    IN  SelectSeq(all, LAMBDA sg : ~(index \in sg.range /\ sg.engine = ids[index]))

\* the loop raises: np.random.choice on an empty range, or neg_samples[j]
\* written past the end of the list
FillRaises(segments, size) ==
    \/ \E k \in DOMAIN segments : segments[k].range = {}
    \/ Len(segments) > size - 1

\* the lists after the loop and the final writes of position 0, for the
\* indices `picks` drawn in the sampled segments; a slot never written keeps
\* its placeholder 0, and np.stack raises on a placeholder among the windows
NegativeSample(ds, index, size, picks) ==
    LET at(k)  == IF k = 1 THEN index ELSE picks[k - 1]
        filled == Len(picks) + 1
    IN  [ok |-> filled = size,
         samples |-> [k \in 1..size |-> IF k <= filled THEN ds.data[at(k)] ELSE 0],
         labels  |-> [k \in 1..size |-> IF k <= filled THEN ds.labels[at(k)] ELSE 0],
         neg_ids |-> [k \in 1..size |-> IF k <= filled THEN ds.ids[at(k)] ELSE 0]]

\* the train dataset of windows of size 1 of engines of the given lengths
WindowDataset(lens) ==
    LET w == generate_window_sample(generate_rul(ReadFrame(lens), NoYTest, FALSE, 0), 1, 1)
    IN  Cmapss(w.data, w.ids, w.labels)

\* the sampler as constructed on a dataset (self.ids, self.data, self.labels,
\* self.interval_nums, self.engine_num) and the index asked for
NegArgs == {[lens |-> l, dataset |-> WindowDataset(l), engine_num |-> e, interval_num |-> n, index |-> i] :
              l \in SeqsUpTo(2..MaxNegLen, MaxNegEngines), e \in 1..MaxEngineNum,
              n \in 1..MaxInterval, i \in 1..(MaxNegEngines * MaxNegLen)}

InitNeg ==
    /\ pc = "call"
    /\ args \in {a \in NegArgs : a.index <= SumSeq(a.lens) - Len(a.lens)}
    /\ ret = <<>>
    /\ scalers = <<>>
    /\ calls = <<>>
    /\ dataset = <<>>
    /\ samplers = <<>>

NegFailed == [ok |-> FALSE, samples |-> <<>>, labels |-> <<>>, neg_ids |-> <<>>, engine_ids |-> <<>>]

\* CmapssNegativeSampler.sample(index): more engines asked for than exist
NegativeSampleNoEngines ==
    /\ pc = "call"
    /\ ChoiceRaises(UniqueIds(args.dataset.ids), args.engine_num)
    /\ ret' = NegFailed
    /\ pc' = "done"
    /\ UNCHANGED <<args, scalers, calls, dataset, samplers>>

\* CmapssNegativeSampler.sample(index) for a draw of engine ids
NegativeSampleCall ==
    /\ pc = "call"
    /\ LET ds == args.dataset
           size == args.interval_num * args.engine_num
       IN  /\ ~ChoiceRaises(UniqueIds(ds.ids), args.engine_num)
           /\ \E drawn \in Draws(UniqueIds(ds.ids), args.engine_num) :
                 LET engine_ids == ForceAnchor(drawn, ds.ids[args.index])
                     segments   == SampledSegments(ds.ids, engine_ids, args.interval_num, args.index)
                 IN  IF FillRaises(segments, size)
                     THEN ret' = NegFailed
                     ELSE \E picks \in Product([k \in DOMAIN segments |-> segments[k].range]) :
                             ret' = NegativeSample(ds, args.index, size, picks) @@ [engine_ids |-> engine_ids]
    /\ pc' = "done"
    /\ UNCHANGED <<args, scalers, calls, dataset, samplers>>

NextNeg == NegativeSampleNoEngines \/ NegativeSampleCall

SpecNeg == InitNeg /\ [][NextNeg]_vars

\* the number of windows of engine u in the dataset of the arguments
NegCount(u) == args.lens[u] - 1

\* the position before the first window of engine u
NegOffset(u) == SumSeq([v \in 1..(u - 1) |-> NegCount(v)])

\* the engine owning position p
NegOwner(p) == CHOOSE u \in DOMAIN args.lens : NegOffset(u) < p /\ p <= NegOffset(u) + NegCount(u)

\* the window at position p of the dataset: window p - offset of its engine
NegWindow(p) == <<SensorReading(NegOwner(p), p - NegOffset(NegOwner(p)))>>

\* C9: when engine_num does not exceed the number of engines and every
\* engine has at least interval_num (contiguous) windows, for every draw the
\* bundle has interval_num * engine_num entries, entry 0 is the dataset's own
\* sample and label at index, and every other entry is a real dataset sample
\* (no placeholder) of one of the engine_num drawn engine ids, the anchor's
\* engine among them, and is never the entry at index.
C9_Bundle ==
    (/\ pc = "done"
     /\ args.engine_num <= Len(args.lens)
     /\ \A u \in DOMAIN args.lens : NegCount(u) >= args.interval_num) =>
        LET size == args.interval_num * args.engine_num
            n    == SumSeq(args.lens) - Len(args.lens)
        IN  /\ ret.ok
            /\ Len(ret.samples) = size /\ Len(ret.labels) = size
            /\ ret.samples[1] = NegWindow(args.index)
            /\ ret.labels[1] = args.lens[NegOwner(args.index)] - (args.index - NegOffset(NegOwner(args.index))) - 1
            /\ Len(ret.engine_ids) = args.engine_num
            /\ \E k \in DOMAIN ret.engine_ids : ret.engine_ids[k] = NegOwner(args.index)
            /\ \A k \in 2..size :
                  \E p \in 1..n :
                      /\ p /= args.index
                      /\ ret.samples[k] = NegWindow(p)
                      /\ ret.labels[k] = args.lens[NegOwner(p)] - (p - NegOffset(NegOwner(p))) - 1
                      /\ \E e \in DOMAIN ret.engine_ids : ret.engine_ids[e] = NegOwner(p)

C9_Witness ==
    /\ pc = "done" /\ ret.ok
    /\ args.lens = <<3, 4>> /\ args.engine_num = 2 /\ args.interval_num = 2 /\ args.index = 4
    /\ Len(ret.samples) = 4
    /\ ret.engine_ids = <<1, 2>>
    /\ ret.neg_ids = <<2, 1, 1, 2>>

(***************************************************************************)
(* The Cmapss container and the samplers attached to it. `dataset` is the  *)
(* container object, `samplers` the sampler objects constructed so far (a  *)
(* sampler is referred to by its position), `calls` the operations done on *)
(* the container since its construction, `ret` what the last call         *)
(* returned (<<>> for None).                                               *)
(***************************************************************************)
MaxOps == 3
MaxCmLen == 4

\* the default engine_num of CmapssNegativeSampler.__init__
DefaultEngineNum == 1

\* a plausible slip: clear_sampler leaves the attribute as it is
clear_sampler_noop(ds) == ds

\* Cmapss.clear_sampler
clear_sampler(ds) == [ds EXCEPT !.sampler = NoSampler]

\* Cmapss.set_sampler
set_sampler(ds, sampler) == [ds EXCEPT !.sampler = sampler]

\* CmapssNegativeSampler.__init__: the attributes of the new object
NegativeSamplerObject(ds, engine_num, interval_num) ==
    [kind |-> "CmapssNegativeSampler", ids |-> ds.ids, data |-> ds.data, labels |-> ds.labels,
     interval_nums |-> interval_num, engine_num |-> engine_num]

\* CmapssRandomNegtiveSampler.__init__: the attributes of the new object
RandomSamplerObject(ds, neg_num, sample_thresh) ==
    [kind |-> "CmapssRandomNegtiveSampler", neg_num |-> neg_num, labels |-> ds.labels,
     data |-> ds.data, thresh |-> sample_thresh]

\* CmapssNegativeSampler.sample(index): every result the draws allow
NegativeSampleResults(sm, index) ==
    IF ChoiceRaises(UniqueIds(sm.ids), sm.engine_num) THEN {NegFailed}
    ELSE UNION {
        LET engine_ids == ForceAnchor(drawn, sm.ids[index])
            segments   == SampledSegments(sm.ids, engine_ids, sm.interval_nums, index)
            size       == sm.interval_nums * sm.engine_num
        IN  IF FillRaises(segments, size) THEN {NegFailed}
            ELSE {NegativeSample(sm, index, size, picks) @@ [engine_ids |-> engine_ids] :
                     picks \in Product([k \in DOMAIN segments |-> segments[k].range])}
        : drawn \in Draws(UniqueIds(sm.ids), sm.engine_num)}

\* CmapssRandomNegtiveSampler.sample(index): every result the draw allows
RandomSampleResults(sm, index) ==
    LET pop == Population(Candidates(sm.labels, index, sm.thresh))
    IN  IF ChoiceRaises(pop, sm.neg_num + 1)
        THEN {[ok |-> FALSE, samples |-> <<>>, labels |-> <<>>]}
        ELSE {RandomNegSample(sm, index, drawn) : drawn \in Draws(pop, sm.neg_num + 1)}

\* self.__sampler.sample(item): the method of the sampler's class
SampleResults(sm, index) ==
    IF sm.kind = "CmapssNegativeSampler"
    THEN NegativeSampleResults(sm, index)
    ELSE RandomSampleResults(sm, index)

\* Cmapss.__getitem__: `via` names the sampler whose sample method ran
\* (NoSampler when the container answered itself)
GetItemResults(ds, heap, item) ==
    IF ds.sampler /= NoSampler
    THEN {[via |-> ds.sampler, result |-> r] : r \in SampleResults(heap[ds.sampler], item)}
    ELSE {[via |-> NoSampler,
           result |-> [ok |-> TRUE, samples |-> ds.data[item], labels |-> SubSeq(ds.labels, item, item)]]}

\* the arrays given to the constructor: the windows of one engine, or the
\* same with the labels or the ids one entry short
CmapssArgs ==
    UNION {LET w == WindowDataset(l)
           IN  {[data |-> w.data, ids |-> w.ids, labels |-> w.labels],
                [data |-> w.data, ids |-> w.ids, labels |-> Tail(w.labels)],
                [data |-> w.data, ids |-> Tail(w.ids), labels |-> w.labels]}
           : l \in SeqsUpTo(2..MaxCmLen, 1)}

InitCmapss ==
    /\ pc = "new"
    /\ args \in CmapssArgs
    /\ ret = <<>>
    /\ scalers = <<>>
    /\ calls = <<>>
    /\ dataset = <<>>
    /\ samplers = <<>>

\* Cmapss(data, ids, labels): the assertion fails and no object is built
ConstructFails ==
    /\ pc = "new"
    /\ ~Cmapss(args.data, args.ids, args.labels).ok
    /\ pc' = "failed"
    /\ UNCHANGED <<args, ret, scalers, calls, dataset, samplers>>

\* Cmapss(data, ids, labels)
Construct ==
    /\ pc = "new"
    /\ Cmapss(args.data, args.ids, args.labels).ok
    /\ dataset' = Cmapss(args.data, args.ids, args.labels)
    /\ pc' = "ready"
    /\ UNCHANGED <<args, ret, scalers, calls, samplers>>

Built == pc \in {"ready", "got"} /\ Len(calls) < MaxOps

\* CmapssNegativeSampler(dataset, interval_num = n): dataset.set_sampler(self)
NewNegativeSampler ==
    /\ Built
    /\ \E n \in 1..MaxInterval :
          samplers' = Append(samplers, NegativeSamplerObject(dataset, DefaultEngineNum, n))
    /\ dataset' = set_sampler(dataset, Len(samplers) + 1)
    /\ calls' = Append(calls, [op |-> "construct sampler", sampler |-> Len(samplers) + 1])
    /\ ret' = <<>>
    /\ pc' = "ready"
    /\ UNCHANGED <<args, scalers>>

\* CmapssRandomNegtiveSampler(dataset, 1, 0): dataset.set_sampler(self)
NewRandomSampler ==
    /\ Built
    /\ samplers' = Append(samplers, RandomSamplerObject(dataset, 1, 0))
    /\ dataset' = set_sampler(dataset, Len(samplers) + 1)
    /\ calls' = Append(calls, [op |-> "construct sampler", sampler |-> Len(samplers) + 1])
    /\ ret' = <<>>
    /\ pc' = "ready"
    /\ UNCHANGED <<args, scalers>>

\* dataset.set_sampler(sampler) with a sampler constructed earlier
SetSampler ==
    /\ Built
    /\ \E s \in DOMAIN samplers :
          /\ dataset' = set_sampler(dataset, s)
          /\ calls' = Append(calls, [op |-> "set_sampler", sampler |-> s])
    /\ ret' = <<>>
    /\ pc' = "ready"
    /\ UNCHANGED <<args, scalers, samplers>>

\* dataset.clear_sampler()
ClearSampler ==
    /\ Built
    /\ dataset' = clear_sampler(dataset)
    /\ calls' = Append(calls, [op |-> "clear_sampler", sampler |-> NoSampler])
    /\ ret' = <<>>
    /\ pc' = "ready"
    /\ UNCHANGED <<args, scalers, samplers>>

\* dataset[item]
GetItem ==
    /\ pc \in {"ready", "got"}
    /\ \E item \in DOMAIN dataset.data :
          \E r \in GetItemResults(dataset, samplers, item) :
              ret' = [item |-> item, via |-> r.via, result |-> r.result]
    /\ pc' = "got"
    /\ UNCHANGED <<args, scalers, calls, dataset, samplers>>

NextCmapss ==
    \/ ConstructFails
    \/ Construct
    \/ NewNegativeSampler
    \/ NewRandomSampler
    \/ SetSampler
    \/ ClearSampler
    \/ GetItem

SpecCmapss == InitCmapss /\ [][NextCmapss]_vars

\* the sampler left attached by the operations done so far, from their record
LastAttached == IF calls = <<>> THEN NoSampler ELSE calls[Len(calls)].sampler

====
